---- MODULE Spec2Model ----
(***************************************************************************)
(* A model of the in-memory record store of src/inmemorydb: the query      *)
(* parser (QueryParser) and the store that composes it (Database).         *)
(*                                                                         *)
(* Text is a sequence of characters.  A character is a one-character       *)
(* string, except the four curly quotes, which are named by their code     *)
(* points because the module is ASCII.                                     *)
(***************************************************************************)
EXTENDS Integers, Sequences, FiniteSets, TLC

SQ == "'"
DQ == "\""
LSQUO == "U+2018"
RSQUO == "U+2019"
LDQUO == "U+201C"
RDQUO == "U+201D"
SP == " "
TAB == "\t"

Whitespace == {SP, TAB}
Digits == {"0", "1", "2", "3", "4", "5", "6", "7", "8", "9"}
LowerCase == <<"a", "b", "c", "d", "e", "f", "g", "h", "i", "j", "k", "l", "m",
               "n", "o", "p", "q", "r", "s", "t", "u", "v", "w", "x", "y", "z">>
UpperCase == <<"A", "B", "C", "D", "E", "F", "G", "H", "I", "J", "K", "L", "M",
               "N", "O", "P", "Q", "R", "S", "T", "U", "V", "W", "X", "Y", "Z">>
Range(f) == {f[i] : i \in DOMAIN f}
WordChars == Range(LowerCase) \cup Range(UpperCase) \cup Digits \cup {"_"}

(* The characters of the model in code point order: str comparison is by   *)
(* code point.                                                             *)
CodePoints ==
    <<TAB, SP, "!", DQ, "'", "(", ")", "+", "-", ".",
      "0", "1", "2", "3", "4", "5", "6", "7", "8", "9", ";", "<", "=", ">">>
    \o UpperCase \o <<"[", "]", "_">> \o LowerCase
    \o <<"{", "}", "~", LSQUO, RSQUO, LDQUO, RDQUO>>
Chars == Range(CodePoints)
OrdOf == [c \in Chars |-> CHOOSE i \in DOMAIN CodePoints : CodePoints[i] = c]
ord(c) == OrdOf[c]

(* ---------------------------------------------------------------- str -- *)

Drop(s, n) == IF n >= Len(s) THEN <<>> ELSE SubSeq(s, n + 1, Len(s))
Take(s, n) == IF n >= Len(s) THEN s ELSE SubSeq(s, 1, n)

UpperOf ==
    [c \in Chars |->
        IF c \in Range(LowerCase)
        THEN UpperCase[CHOOSE i \in DOMAIN LowerCase : LowerCase[i] = c]
        ELSE c]
upper_char(c) == UpperOf[c]
upper(s) == [i \in DOMAIN s |-> upper_char(s[i])]

startswith(s, p) == Len(p) <= Len(s) /\ SubSeq(s, 1, Len(p)) = p

(* The length of the longest run of characters of `set` in s from index i. *)
RECURSIVE Run(_, _, _)
Run(s, i, set) ==
    IF i <= Len(s) /\ s[i] \in set THEN 1 + Run(s, i + 1, set) ELSE 0

RECURSIVE RunBack(_, _, _)
RunBack(s, i, set) ==
    IF i >= 1 /\ s[i] \in set THEN 1 + RunBack(s, i - 1, set) ELSE 0

lstrip(s) == Drop(s, Run(s, 1, Whitespace))
rstrip(s) == Take(s, Len(s) - RunBack(s, Len(s), Whitespace))
strip(s) == rstrip(lstrip(s))

(* s < t for two str: lexicographic by code point, a proper prefix first.  *)
RECURSIVE str_lt(_, _)
str_lt(s, t) ==
    IF t = <<>> THEN FALSE
    ELSE IF s = <<>> THEN TRUE
    ELSE IF s[1] = t[1] THEN str_lt(Tail(s), Tail(t))
    ELSE ord(s[1]) < ord(t[1])

(* -------------------------------------------------------------- values -- *)
(* A Python value of the program: a str, a float (finite m * 10^e with m   *)
(* not a multiple of 10, or an infinity of sign m, or nan), or None.       *)

Str(s) == [t |-> "str", s |-> s, k |-> "", m |-> 0, e |-> 0]
None == [t |-> "none", s |-> <<>>, k |-> "", m |-> 0, e |-> 0]
Inf(sign) == [t |-> "num", s |-> <<>>, k |-> "inf", m |-> sign, e |-> 0]
NaN == [t |-> "num", s |-> <<>>, k |-> "nan", m |-> 0, e |-> 0]

RECURSIVE Normal(_, _)
Normal(m, e) ==
    IF m = 0 THEN <<0, 0>>
    ELSE IF m % 10 = 0 THEN Normal(m \div 10, e + 1)
    ELSE <<m, e>>
Num(m, e) ==
    LET n == Normal(m, e)
    IN  [t |-> "num", s |-> <<>>, k |-> "fin", m |-> n[1], e |-> n[2]]

RECURSIVE Pow10(_)
Pow10(n) == IF n <= 0 THEN 1 ELSE 10 * Pow10(n - 1)

(* x < y for two floats; every comparison with nan is false.               *)
num_lt(x, y) ==
    IF x.k = "nan" \/ y.k = "nan" THEN FALSE
    ELSE IF x.k = "inf" THEN x.m < 0 /\ ~(y.k = "inf" /\ y.m < 0)
    ELSE IF y.k = "inf" THEN y.m > 0
    ELSE LET lo == IF x.e < y.e THEN x.e ELSE y.e
         IN  x.m * Pow10(x.e - lo) < y.m * Pow10(y.e - lo)
num_eq(x, y) == x.k # "nan" /\ y.k # "nan" /\ x = y

(* ---------------------------------------------------------------- float -- *)
(* float(text) of a str: surrounding whitespace is ignored; an optional    *)
(* sign; then inf, infinity or nan in any case, or a decimal number with   *)
(* an optional fraction and exponent, whose digit groups may hold single   *)
(* underscores between digits.  Anything else is a ValueError.             *)

DigitGroup(x) ==
    /\ x # <<>>
    /\ \A i \in DOMAIN x : x[i] \in Digits \cup {"_"}
    /\ x[1] \in Digits
    /\ x[Len(x)] \in Digits
    /\ \A i \in 1..(Len(x) - 1) : ~(x[i] = "_" /\ x[i + 1] = "_")

RECURSIVE IntOf(_)
IntOf(x) ==
    IF x = <<>> THEN 0
    ELSE IF x[Len(x)] = "_" THEN IntOf(Take(x, Len(x) - 1))
    ELSE 10 * IntOf(Take(x, Len(x) - 1)) + (ord(x[Len(x)]) - ord("0"))

(* The index of the first character of `set` in s, 0 when there is none.   *)
Find(s, set) ==
    LET n == Run(s, 1, Chars \ set) IN IF n = Len(s) THEN 0 ELSE n + 1

Signed(s) == s # <<>> /\ s[1] \in {"+", "-"}
SignOf(s) == IF Signed(s) /\ s[1] = "-" THEN -1 ELSE 1
Unsigned(s) == IF Signed(s) THEN Tail(s) ELSE s

float(text) ==
    LET s == strip(text)
        body == Unsigned(s)
        ePos == Find(body, {"e", "E"})
        mant == IF ePos = 0 THEN body ELSE Take(body, ePos - 1)
        expt == IF ePos = 0 THEN <<>> ELSE Drop(body, ePos)
        dot == Find(mant, {"."})
        ip == IF dot = 0 THEN mant ELSE Take(mant, dot - 1)
        fp == IF dot = 0 THEN <<>> ELSE Drop(mant, dot)
        fracDigits == Cardinality({i \in DOMAIN fp : fp[i] \in Digits})
        okMant == /\ ip = <<>> \/ DigitGroup(ip)
                  /\ fp = <<>> \/ DigitGroup(fp)
                  /\ ip # <<>> \/ fp # <<>>
        okExp == ePos = 0 \/ DigitGroup(Unsigned(expt))
    IN  IF upper(body) \in {<<"I", "N", "F">>,
                            <<"I", "N", "F", "I", "N", "I", "T", "Y">>}
        THEN [ok |-> TRUE, v |-> Inf(SignOf(s))]
        ELSE IF upper(body) = <<"N", "A", "N">>
        THEN [ok |-> TRUE, v |-> NaN]
        ELSE IF okMant /\ okExp
        THEN [ok |-> TRUE,
              v |-> Num(SignOf(s) * IntOf(ip \o fp),
                        SignOf(expt) * IntOf(Unsigned(expt)) - fracDigits)]
        ELSE [ok |-> FALSE, v |-> None]

(* ---------------------------------------------------------- QueryParser -- *)

OpenQuotes == {SQ, DQ, LSQUO}
CloseQuotes == {SQ, DQ, RSQUO}
(* [^"\'] of CONDITION_PATTERN: every character but the two plain quotes.  *)
NotPlainQuote == Chars \ {SQ, DQ}

(* The alternatives of the operator group, in the order the pattern tries  *)
(* them.                                                                   *)
OperatorAlternatives ==
    <<  <<"=">>, <<"!", "=">>, <<"<", "=">>, <<">", "=">>, <<"<">>, <<">">>  >>
SUPPORTED_OPERATORS == Range(OperatorAlternatives)

ValueErr(v) == [exc |-> "ValueError", val |-> v]
TypeErr(v) == [exc |-> "TypeError", val |-> v]
Ok(v) == [exc |-> "none", val |-> v]

(* A variant that strips the quotes and then still tries the number.       *)
parse_value_number_first(value) ==
    LET inner == IF /\ value # <<>>
                    /\ value[1] \in OpenQuotes
                    /\ value[Len(value)] \in CloseQuotes
                 THEN SubSeq(value, 2, Len(value) - 1)
                 ELSE value
    IN  IF float(inner).ok THEN float(inner).v ELSE Str(inner)

(* A variant that trims the text inside the quotes.                        *)
parse_value_trimmed(value) ==
    IF /\ value # <<>>
       /\ value[1] \in OpenQuotes
       /\ value[Len(value)] \in CloseQuotes
    THEN Str(strip(SubSeq(value, 2, Len(value) - 1)))
    ELSE IF float(value).ok THEN float(value).v ELSE Str(value)

parse_value(value) ==
    IF /\ value # <<>>
       /\ value[1] \in OpenQuotes
       /\ value[Len(value)] \in CloseQuotes
    THEN Str(SubSeq(value, 2, Len(value) - 1))
    ELSE IF float(value).ok THEN float(value).v ELSE Str(value)

(* The third group, ([\'"`]?[^"\']+[\'"`]?), matched at index p: the index *)
(* of its last character, 0 when it does not match there.  The opening     *)
(* quote is taken when a character other than a plain quote follows it;    *)
(* the run is as long as it can be; a closing quote is taken when one      *)
(* follows the run.                                                        *)
Group3End(s, p) ==
    LET withOpen == /\ p <= Len(s)
                    /\ s[p] \in OpenQuotes
                    /\ Run(s, p + 1, NotPlainQuote) >= 1
        b == IF withOpen THEN p + 1 ELSE p
        r == Run(s, b, NotPlainQuote)
        j == b + r - 1
    IN  IF r = 0 THEN 0
        ELSE IF j + 1 <= Len(s) /\ s[j + 1] \in CloseQuotes THEN j + 1
        ELSE j

(* \s* before the third group is greedy: it gives whitespace back, one     *)
(* character at a time, while the third group does not match.  The start   *)
(* index of the third group, 0 when there is no match.                     *)
RECURSIVE Group3Start(_, _, _)
Group3Start(s, p, k) ==
    IF Group3End(s, p + k) > 0 THEN p + k
    ELSE IF k = 0 THEN 0
    ELSE Group3Start(s, p, k - 1)

(* The operator alternatives from the n-th on, tried at index p: the first *)
(* one after which the rest of the pattern matches.                        *)
RECURSIVE TryOperator(_, _, _)
TryOperator(s, p, n) ==
    IF n > Len(OperatorAlternatives) THEN [ok |-> FALSE, op |-> <<>>, from |-> 0]
    ELSE LET alt == OperatorAlternatives[n]
             q == p + Len(alt)
             g == IF startswith(Drop(s, p - 1), alt)
                  THEN Group3Start(s, q, Run(s, q, Whitespace))
                  ELSE 0
         IN  IF g > 0 THEN [ok |-> TRUE, op |-> alt, from |-> g]
             ELSE TryOperator(s, p, n + 1)

(* re.match(CONDITION_PATTERN, s): a match at the start of s, not          *)
(* necessarily to its end.  \w+ and the \s* after it can only take their   *)
(* longest runs: a word or whitespace character left over starts no        *)
(* operator.                                                               *)
CONDITION_PATTERN(s) ==
    LET f == Run(s, 1, WordChars)
        p == f + Run(s, f + 1, Whitespace) + 1
        o == TryOperator(s, p, 1)
    IN  IF f = 0 \/ ~o.ok
        THEN [ok |-> FALSE, field |-> <<>>, operator |-> <<>>, value |-> <<>>]
        ELSE [ok |-> TRUE,
              field |-> Take(s, f),
              operator |-> o.op,
              value |-> SubSeq(s, o.from, Group3End(s, o.from))]

parse_condition(condition) ==
    LET match == CONDITION_PATTERN(strip(condition))
    IN  IF ~match.ok THEN ValueErr(<<>>)
        ELSE IF match.operator \notin SUPPORTED_OPERATORS THEN ValueErr(<<>>)
        ELSE Ok(<<match.field, match.operator, parse_value(match.value)>>)

(* The leftmost match of \s+AND\s+ (IGNORECASE) in s: its first and last   *)
(* index, <<0, 0>> when there is none.                                     *)
AndAt_case_sensitive(s, i) ==
    LET w == Run(s, i, Whitespace)
    IN  /\ w >= 1
        /\ i + w + 2 <= Len(s)
        /\ SubSeq(s, i + w, i + w + 2) = <<"A", "N", "D">>
        /\ Run(s, i + w + 3, Whitespace) >= 1
AndAt(s, i) ==
    LET w == Run(s, i, Whitespace)
    IN  /\ w >= 1
        /\ i + w + 2 <= Len(s)
        /\ upper(SubSeq(s, i + w, i + w + 2)) = <<"A", "N", "D">>
        /\ Run(s, i + w + 3, Whitespace) >= 1
RECURSIVE FindAnd(_, _)
FindAnd(s, i) ==
    IF i > Len(s) THEN 0
    ELSE IF AndAt(s, i) THEN i
    ELSE FindAnd(s, i + 1)
FirstAnd(s) ==
    LET i == FindAnd(s, 1)
        w == Run(s, i, Whitespace)
    IN  IF i = 0 THEN <<0, 0>>
        ELSE <<i, i + w + 2 + Run(s, i + w + 3, Whitespace)>>

RECURSIVE re_split(_)
re_split(s) ==
    LET m == FirstAnd(s)
    IN  IF m[1] = 0 THEN <<s>>
        ELSE <<Take(s, m[1] - 1)>> \o re_split(Drop(s, m[2]))

split_conditions(conditions_str) ==
    LET parts == re_split(conditions_str)
    IN  [i \in DOMAIN parts |-> strip(parts[i])]

WHERE == <<"W", "H", "E", "R", "E">>

(* A variant that leaves out the segments that do not parse.               *)
RECURSIVE parse_all_best_effort(_)
parse_all_best_effort(segments) ==
    IF segments = <<>> THEN Ok(<<>>)
    ELSE LET c == parse_condition(Head(segments))
             rest == parse_all_best_effort(Tail(segments))
         IN  IF c.exc # "none" THEN rest
             ELSE Ok(<<c.val>> \o rest.val)

(* The conditions of the segments, in order; the first segment that does   *)
(* not parse raises.                                                       *)
RECURSIVE parse_all(_)
parse_all(segments) ==
    IF segments = <<>> THEN Ok(<<>>)
    ELSE LET c == parse_condition(Head(segments))
             rest == parse_all(Tail(segments))
         IN  IF c.exc # "none" THEN ValueErr(<<>>)
             ELSE IF rest.exc # "none" THEN ValueErr(<<>>)
             ELSE Ok(<<c.val>> \o rest.val)

(* A variant that compares one character too few of the keyword.          *)
parse_query_short_keyword(query) ==
    IF ~startswith(upper(strip(query)), <<"W", "H", "E", "R">>) THEN ValueErr(<<>>)
    ELSE LET conditions_str == strip(Drop(query, 5))
         IN  IF conditions_str = <<>> THEN ValueErr(<<>>)
             ELSE parse_all(split_conditions(conditions_str))

parse_query(query) ==
    IF ~startswith(upper(strip(query)), WHERE) THEN ValueErr(<<>>)
    ELSE LET conditions_str == strip(Drop(query, 5))
         IN  IF conditions_str = <<>> THEN ValueErr(<<>>)
             ELSE parse_all(split_conditions(conditions_str))

(* ------------------------------------------------------------ evaluator -- *)
(* A record is a function from its field names to values.                  *)

py_eq(x, y) == IF x.t = "num" /\ y.t = "num" THEN num_eq(x, y) ELSE x = y

(* x < y: defined between two floats and between two str; any other pair   *)
(* of types is a TypeError.                                                *)
Ordered(x, y) == (x.t = "num" /\ y.t = "num") \/ (x.t = "str" /\ y.t = "str")
py_lt(x, y) == IF x.t = "num" THEN num_lt(x, y) ELSE str_lt(x.s, y.s)

(* SUPPORTED_OPERATORS[operator](x, y)                                     *)
apply_operator(operator, x, y) ==
    IF operator = <<"=">> THEN Ok(py_eq(x, y))
    ELSE IF operator = <<"!", "=">> THEN Ok(~py_eq(x, y))
    ELSE IF ~Ordered(x, y) THEN TypeErr(FALSE)
    ELSE IF operator = <<"<">> THEN Ok(py_lt(x, y))
    ELSE IF operator = <<">">> THEN Ok(py_lt(y, x))
    ELSE IF operator = <<"<", "=">> THEN Ok(py_lt(x, y) \/ py_eq(x, y))
    ELSE Ok(py_lt(y, x) \/ py_eq(x, y))

(* A variant that reads a missing field as None (record.get).              *)
evaluate_condition_get(record, field, operator, value) ==
    LET record_value == IF field \in DOMAIN record THEN record[field] ELSE None
    IN  IF value.t = "num" /\ record_value.t = "str"
        THEN IF float(record_value.s).ok
             THEN apply_operator(operator, float(record_value.s).v, value)
             ELSE Ok(FALSE)
        ELSE apply_operator(operator, record_value, value)

(* A variant that compares the text as it is when it is no number.         *)
evaluate_condition_raw(record, field, operator, value) ==
    IF field \notin DOMAIN record THEN Ok(FALSE)
    ELSE LET record_value == record[field]
         IN  IF value.t = "num" /\ record_value.t = "str" /\ float(record_value.s).ok
             THEN apply_operator(operator, float(record_value.s).v, value)
             ELSE apply_operator(operator, record_value, value)

(* A variant that also reads a string literal as a number when the record  *)
(* value is a number.                                                      *)
evaluate_condition_both_ways(record, field, operator, value) ==
    IF field \notin DOMAIN record THEN Ok(FALSE)
    ELSE LET record_value == record[field]
         IN  IF value.t = "num" /\ record_value.t = "str"
             THEN IF float(record_value.s).ok
                  THEN apply_operator(operator, float(record_value.s).v, value)
                  ELSE Ok(FALSE)
             ELSE IF value.t = "str" /\ record_value.t = "num" /\ float(value.s).ok
             THEN apply_operator(operator, record_value, float(value.s).v)
             ELSE apply_operator(operator, record_value, value)

evaluate_condition(record, field, operator, value) ==
    IF field \notin DOMAIN record THEN Ok(FALSE)
    ELSE LET record_value == record[field]
         IN  IF value.t = "num" /\ record_value.t = "str"
             THEN IF float(record_value.s).ok
                  THEN apply_operator(operator, float(record_value.s).v, value)
                  ELSE Ok(FALSE)
             ELSE apply_operator(operator, record_value, value)

(* all(...) over a generator: the conditions are evaluated in order up to  *)
(* the first that is false or raises.                                      *)
RECURSIVE evaluate_record(_, _)
evaluate_record(record, conditions) ==
    IF conditions = <<>> THEN Ok(TRUE)
    ELSE LET c == Head(conditions)
             r == evaluate_condition(record, c[1], c[2], c[3])
         IN  IF r.exc # "none" THEN r
             ELSE IF ~r.val THEN Ok(FALSE)
             ELSE evaluate_record(record, Tail(conditions))

(* ------------------------------------------------------------- Database -- *)

(* The list comprehension of Database.query: the records that match, in    *)
(* order; an exception of the evaluator ends it.                           *)
RECURSIVE scan(_, _)
scan(records, conditions) ==
    IF records = <<>> THEN Ok(<<>>)
    ELSE LET r == evaluate_record(Head(records), conditions)
             rest == scan(Tail(records), conditions)
         IN  IF r.exc # "none" THEN [exc |-> r.exc, val |-> <<>>]
             ELSE IF rest.exc # "none" THEN rest
             ELSE IF r.val THEN Ok(<<Head(records)>> \o rest.val)
             ELSE rest

(* Database.query: a ValueError of the parser is caught and raised again   *)
(* as a ValueError; nothing else is caught.                                *)
query(records, query_str) ==
    LET conditions == parse_query(query_str)
    IN  IF conditions.exc = "ValueError" THEN ValueErr(<<>>)
        ELSE scan(records, conditions.val)

count(records) == Len(records)

(* str.index and str.rindex of one character: the first and the last      *)
(* index of c in s, 0 where Python raises ValueError.                      *)
index(s, c) == Find(s, {c})
rindex(s, c) == Len(s) - RunBack(s, Len(s), Chars \ {c})

(* Database._clean_js_content: for content that starts with "var ", the    *)
(* text from the first [ up to the last ; without it.                      *)
_clean_js_content(content) ==
    IF startswith(content, <<"v", "a", "r", SP>>)
    THEN LET i == index(content, "[")
             j == rindex(content, ";")
         IN  IF i = 0 \/ j = 0 THEN ValueErr(<<>>)
             ELSE Ok(strip(SubSeq(content, i, j - 1)))
    ELSE Ok(strip(content))

(* ---------------------------------------------------------------- state -- *)
(* data is Database.data.  op, args and out are the call in hand: the      *)
(* operation, its arguments and what it returned or raised; op is "idle"   *)
(* between calls, when the caller has taken the outcome.                   *)

VARIABLES data, op, args, out
vars == <<data, op, args, out>>

MaxRecords == 2
MaxSegments == 2
MaxConditions == 2
MaxLead == 2
MaxGap == 2
MaxInner == 3

Texts(chars, n) == UNION {[1..k -> chars] : k \in 0..n}

RECURSIVE Join(_, _)
Join(parts, sep) ==
    IF parts = <<>> THEN <<>>
    ELSE IF Len(parts) = 1 THEN parts[1]
    ELSE parts[1] \o sep \o Join(Tail(parts), sep)

Predicate(field, gap1, operator, gap2, value) ==
    field \o gap1 \o operator \o gap2 \o value

Fields == {<<"a">>, <<"b">>}

(* The stores a Database is constructed with.                              *)
StoreValues == {Num(1, 0), Str(<<"x">>)}
Records == UNION {[S -> StoreValues] : S \in SUBSET Fields}
Stores == UNION {[1..n -> Records] : n \in 0..MaxRecords}

(* The queries put to a store: a keyword, then predicates joined by AND.   *)
QueryKeywords == {WHERE, <<"W", "H", "E", "R">>}
QueryTests == {<<<<"=">>, <<"1">>>>, <<<<"<", "=">>, <<SQ, "x", SQ>>>>}
BadSegments == {<<"a">>}
QuerySegments ==
    {Predicate(x[1], <<SP>>, x[2][1], <<SP>>, x[2][2]) : x \in Fields \X QueryTests}
    \cup BadSegments
AND == <<SP, "A", "N", "D", SP>>
QueryText(keyword, segments) == keyword \o <<SP>> \o Join(segments, AND)

(* The inputs of the evaluator.                                            *)
EvalValues ==
    {Num(1, 0), Num(2, 0), Num(5, 0), Str(<<"1">>), Str(<<"x">>), Str(<<"1", "0">>)}
EvalRecords == UNION {[S -> EvalValues] : S \in SUBSET Fields}
EvalFields == Fields \cup {<<"c">>}
Literals == {Num(1, 0), Num(2, 0), Num(9, 0), Str(<<"1">>), Str(<<"5">>), Str(<<"x">>)}
Conditions == Fields \X {<<"=">>, <<"<">>} \X {Num(1, 0), Str(<<"x">>)}

(* The inputs of the parser.                                               *)
Keywords ==
    {WHERE, <<"w", "h", "e", "r", "e">>, <<"W", "h", "E", "r", "e">>,
     <<"W", "H", "E", "R">>, <<"W", "H", "E", "R", "F">>, <<>>}
Tails ==
    {<<>>, <<SP>>, <<TAB, SP>>,
     <<SP, "a", "=", "1">>, <<"a", "=", "1">>, <<SP, "=", SP, "1">>,
     <<SP, "a", "=", "1", SP>>, <<SP, "E", "=", "1">>,
     <<SP, "a", "=", "1">> \o AND \o <<"b", "<", SQ, "x", SQ>>,
     <<SP, "a", "=", "1">> \o AND \o <<"b">>,
     <<SP, "a", "=", "1", SP, "A", "N", "D">>}
OpenMarks == {<<>>, <<SQ>>, <<DQ>>, <<LSQUO>>, <<LDQUO>>}
CloseMarks == {<<>>, <<SQ>>, <<DQ>>, <<RSQUO>>, <<RDQUO>>}
InnerChars == {"1", "2", ".", "x", SP, SQ}
ConditionInners == {<<>>, <<"1">>, <<"x">>, <<"1", ".", "5">>, <<"x", SQ, "y">>}
WordFields == {<<"a">>, <<"B", "_", "2">>}
QuotedChars == {"x", "1", SP, ".", "-", "(", ")"}
QuotedInners == Texts(QuotedChars, MaxInner) \ {<<>>}
ConditionValues == {<<"1">>, <<SQ, "x", SQ>>, <<SQ, SQ>>}
ConditionOperators == SUPPORTED_OPERATORS \cup {<<"~">>}
Separators == {AND, <<SP, "a", "n", "d", SP>>, <<TAB, "A", "n", "d", SP, SP>>,
               <<"A", "N", "D", SP>>, <<SP, "A", "N", "D">>}
SplitSegments ==
    {<<"a", "=", "1">>,
     <<"B", "A", "N", "D", "=", "1">>,
     <<"a", "=", "A", "N", "D", "Y">>,
     <<"a", SP, "=", SP, "A", "N", "D">>,
     <<"a", SP, "a", "n", "d", SP, "b">>,
     <<"A", "N", "D">>}


(* The contents of the files a Database is loaded from: a JavaScript       *)
(* assignment or not, a JSON text, a semicolon or not.                     *)
JsPrefixes ==
    {<<>>, <<"v", "a", "r", SP, "x", SP, "=", SP>>, <<"v", "a", "r", SP, "x", "=">>,
     <<"v", "a", "r", "s", SP, "=", SP>>}
JsBodies ==
    {<<"[", "1", "]">>, <<"[", "]">>, <<"[", "[", "1", "]", "]">>,
     <<"[", "x", ";", "y", "]">>, <<"1">>}
JsSuffixes == {<<>>, <<";">>}

Init ==
    /\ data \in Stores
    /\ op = "idle"
    /\ args = <<>>
    /\ out = <<>>

InitParser ==
    /\ data = <<>>
    /\ op = "idle"
    /\ args = <<>>
    /\ out = <<>>

(* --------------------------------------------------------------- actions -- *)

(* A variant that keeps only the records the query returned.               *)
Query_keeping_result(keyword, segments) ==
    LET query_str == QueryText(keyword, segments)
        result == query(data, query_str)
    IN  /\ op = "idle"
        /\ op' = "query"
        /\ args' = [query_str |-> query_str, segments |-> segments]
        /\ out' = result
        /\ data' = IF result.exc = "none" THEN result.val ELSE <<>>

Query(keyword, segments) ==
    LET query_str == QueryText(keyword, segments)
    IN  /\ op = "idle"
        /\ op' = "query"
        /\ args' = [query_str |-> query_str, segments |-> segments]
        /\ out' = query(data, query_str)
        /\ UNCHANGED data

Count ==
    /\ op = "idle"
    /\ op' = "count"
    /\ args' = <<>>
    /\ out' = Ok(count(data))
    /\ UNCHANGED data

ParseQuery(lead, keyword, tail) ==
    /\ op = "idle"
    /\ op' = "parse_query"
    /\ args' = [query |-> lead \o keyword \o tail]
    /\ out' = parse_query(lead \o keyword \o tail)
    /\ UNCHANGED data

SplitConditions(segments, sep) ==
    /\ op = "idle"
    /\ op' = "split_conditions"
    /\ args' = [conditions_str |-> Join(segments, sep), segments |-> segments,
                sep |-> sep]
    /\ out' = Ok(split_conditions(Join(segments, sep)))
    /\ UNCHANGED data

ParseCondition(lead, field, gap1, operator, gap2, value, trail) ==
    LET condition == lead \o Predicate(field, gap1, operator, gap2, value) \o trail
    IN  /\ op = "idle"
        /\ op' = "parse_condition"
        /\ args' = [condition |-> condition, field |-> field,
                    operator |-> operator, value |-> value,
                    rest |-> gap2 \o value \o trail]
        /\ out' = parse_condition(condition)
        /\ UNCHANGED data

ParseValue(open, inner, close) ==
    /\ op = "idle"
    /\ op' = "parse_value"
    /\ args' = [value |-> open \o inner \o close,
                open |-> open, inner |-> inner, close |-> close]
    /\ out' = Ok(parse_value(open \o inner \o close))
    /\ UNCHANGED data

EvaluateCondition(record, field, operator, value) ==
    /\ op = "idle"
    /\ op' = "evaluate_condition"
    /\ args' = [record |-> record, field |-> field, operator |-> operator,
                value |-> value]
    /\ out' = evaluate_condition(record, field, operator, value)
    /\ UNCHANGED data

EvaluateRecord(record, conditions) ==
    /\ op = "idle"
    /\ op' = "evaluate_record"
    /\ args' = [record |-> record, conditions |-> conditions]
    /\ out' = evaluate_record(record, conditions)
    /\ UNCHANGED data

CleanJsContent(lead, prefix, body, suffix, trail) ==
    LET content == lead \o prefix \o body \o suffix \o trail
    IN  /\ op = "idle"
        /\ op' = "_clean_js_content"
        /\ args' = [content |-> content, lead |-> lead, prefix |-> prefix,
                    body |-> body, suffix |-> suffix]
        /\ out' = _clean_js_content(content)
        /\ UNCHANGED data

(* The caller takes the outcome of the call and goes on, as the query loop *)
(* of main() does after a result and after an error.                       *)
Return ==
    /\ op # "idle"
    /\ op' = "idle"
    /\ args' = <<>>
    /\ out' = <<>>
    /\ UNCHANGED data

(* A Database and the queries put to it.                                   *)
Next ==
    \/ /\ op = "idle"
       /\ \E keyword \in QueryKeywords :
            \E n \in 0..MaxSegments : \E segments \in [1..n -> QuerySegments] :
              Query(keyword, segments)
    \/ Count
    \/ Return
Spec == Init /\ [][Next]_vars

(* The parser's class methods, called on their own.                        *)
NextParser ==
    \/ /\ op = "idle"
       /\ \E lead \in Texts(Whitespace, MaxLead) :
            \E keyword \in Keywords : \E tail \in Tails :
              ParseQuery(lead, keyword, tail)
    \/ /\ op = "idle"
       /\ \E n \in 1..MaxSegments : \E segments \in [1..n -> SplitSegments] :
            \E sep \in Separators :
              SplitConditions(segments, sep)
    \/ /\ op = "idle"
       /\ \E field \in Fields : \E operator \in ConditionOperators :
            \E g1 \in 0..MaxGap : \E g2 \in 0..MaxGap :
              \E open \in OpenMarks : \E inner \in ConditionInners :
                \E close \in CloseMarks :
                  ParseCondition(<<>>, field, [i \in 1..g1 |-> SP], operator,
                                 [i \in 1..g2 |-> SP], open \o inner \o close,
                                 <<>>)
    \/ /\ op = "idle"
       /\ \E lead \in Texts(Whitespace, MaxLead) :
            \E trail \in Texts(Whitespace, MaxLead) :
              \E field \in Fields : \E operator \in SUPPORTED_OPERATORS :
                \E gap1 \in Texts(Whitespace, 1) : \E gap2 \in Texts(Whitespace, 1) :
                  \E value \in ConditionValues :
                    ParseCondition(lead, field, gap1, operator, gap2, value, trail)
    \/ /\ op = "idle"
       /\ \E field \in WordFields : \E operator \in SUPPORTED_OPERATORS :
            \E quote \in {SQ, DQ} : \E inner \in QuotedInners :
              ParseCondition(<<>>, field, <<SP>>, operator, <<SP>>,
                             <<quote>> \o inner \o <<quote>>, <<>>)
    \/ /\ op = "idle"
       /\ \E open \in OpenMarks : \E inner \in Texts(InnerChars, MaxInner) :
            \E close \in CloseMarks :
              ParseValue(open, inner, close)
    \/ Return
SpecParser == InitParser /\ [][NextParser]_vars

(* The evaluator's class methods, called on their own.                     *)
NextEval ==
    \/ /\ op = "idle"
       /\ \E record \in EvalRecords : \E field \in EvalFields :
            \E operator \in SUPPORTED_OPERATORS : \E value \in Literals :
              EvaluateCondition(record, field, operator, value)
    \/ /\ op = "idle"
       /\ \E record \in EvalRecords :
            \E n \in 0..MaxConditions : \E conditions \in [1..n -> Conditions] :
              EvaluateRecord(record, conditions)
    \/ Return
SpecEval == InitParser /\ [][NextEval]_vars

(* The static method that cleans the content of a file, called on its own. *)
NextLoader ==
    \/ /\ op = "idle"
       /\ \E lead \in Texts(Whitespace, MaxLead) : \E prefix \in JsPrefixes :
            \E body \in JsBodies : \E suffix \in JsSuffixes :
              \E trail \in Texts(Whitespace, MaxLead) :
                CleanJsContent(lead, prefix, body, suffix, trail)
    \/ Return
SpecLoader == InitParser /\ [][NextLoader]_vars

(* ---------------------------------------------------------------- claims -- *)

Matches(record, conditions) ==
    \A i \in DOMAIN conditions :
        evaluate_condition(record, conditions[i][1], conditions[i][2],
                           conditions[i][3]) = Ok(TRUE)
Matching(records, conditions) ==
    LET Test(record) == Matches(record, conditions)
    IN  SelectSeq(records, Test)

(* C1: a query that parses returns exactly the records of the store for    *)
(* which every parsed condition is true, in the order of the store, and    *)
(* the empty list when no record matches; it does not raise.               *)
C1_QueryReturnsMatches ==
    (op = "query" /\ parse_query(args.query_str).exc = "none")
        => out = Ok(Matching(data, parse_query(args.query_str).val))

(* C2: evaluate_condition never raises: it returns a boolean for every     *)
(* record, field, supported operator and literal.                          *)
C2_NeverRaises ==
    op = "evaluate_condition" => (out.exc = "none" /\ out.val \in BOOLEAN)

(* C3: a query one of whose predicate segments does not match the          *)
(* predicate pattern raises ValueError and returns no record, whatever     *)
(* the store and the other segments are.                                   *)
InGrammar(segment) == CONDITION_PATTERN(strip(segment)).ok
C3_FailFast ==
    (op = "query" /\ \E i \in DOMAIN args.segments : ~InGrammar(args.segments[i]))
        => out = ValueErr(<<>>)
C3_Witness ==
    /\ op = "query"
    /\ startswith(args.query_str, WHERE)
    /\ Len(args.segments) = 2
    /\ InGrammar(args.segments[1])
    /\ args.segments[2] \in BadSegments
    /\ Matching(data, <<parse_condition(args.segments[1]).val>>) # <<>>
    /\ out = ValueErr(<<>>)

KeywordCases == <<{"W", "w"}, {"H", "h"}, {"E", "e"}, {"R", "r"}, {"E", "e"}>>
StartsWithKeyword(q) ==
    Len(q) >= 5 /\ \A i \in 1..5 : q[i] \in KeywordCases[i]
KeywordOnly(q) ==
    StartsWithKeyword(q) /\ \A i \in 6..Len(q) : q[i] \in Whitespace

C5_LeadingWhitespace ==
    (op = "parse_query" /\ out.exc = "none")
        => \A w \in Texts(Whitespace, MaxLead) : parse_query(w \o args.query) = out

(* C6: evaluate_condition returns false when the field is not a key of the *)
(* record, for every operator and literal.                                 *)
C6_MissingField ==
    (op = "evaluate_condition" /\ args.field \notin DOMAIN args.record)
        => out = Ok(FALSE)
C6_Witness ==
    /\ op = "evaluate_condition"
    /\ DOMAIN args.record = {<<"a">>}
    /\ args.field = <<"b">>
    /\ args.operator = <<"!", "=">>
    /\ out = Ok(FALSE)

(* C7: with a numeric literal and a record value that is a string float()  *)
(* does not parse, evaluate_condition returns false for each of the six    *)
(* operators.                                                              *)
C7_NonNumericText ==
    (op = "evaluate_condition"
        /\ args.value.t = "num"
        /\ args.field \in DOMAIN args.record
        /\ args.record[args.field].t = "str"
        /\ ~float(args.record[args.field].s).ok)
        => out = Ok(FALSE)
C7_Witness ==
    /\ op = "evaluate_condition"
    /\ args.value = Num(1, 0)
    /\ args.field \in DOMAIN args.record
    /\ args.record[args.field] = Str(<<"x">>)
    /\ args.operator = <<"!", "=">>
    /\ out = Ok(FALSE)

(* C8: evaluate_record gives the same outcome for every permutation of     *)
(* the condition list.                                                     *)
C8_OrderIndependent ==
    op = "evaluate_record"
        => \A p \in Permutations(DOMAIN args.conditions) :
              evaluate_record(args.record,
                              [i \in DOMAIN args.conditions |-> args.conditions[p[i]]])
                = out

(* C9: parse_value of a text wrapped in a pair of quotes is the inner text *)
(* as a string, also when the inner text reads as a number; the same text  *)
(* given bare is a number.                                                 *)
QuotePairs == {<<SQ, SQ>>, <<DQ, DQ>>, <<LSQUO, RSQUO>>}
Wrapped(open, close) == open # <<>> /\ close # <<>> /\ <<open[1], close[1]>> \in QuotePairs
Bare(open, close) == open = <<>> /\ close = <<>>
LooksNumeric(s) ==
    /\ \A i \in DOMAIN s : s[i] \in Digits \cup {"."}
    /\ \E i \in DOMAIN s : s[i] \in Digits
    /\ Cardinality({i \in DOMAIN s : s[i] = "."}) <= 1
C9_QuotingForcesString ==
    op = "parse_value"
        => /\ Wrapped(args.open, args.close) => out = Ok(Str(args.inner))
           /\ (Bare(args.open, args.close) /\ LooksNumeric(args.inner))
                => out.val.t = "num"
C9_Witness ==
    /\ op = "parse_value"
    /\ args.value = <<SQ, "1", ".", "2", SQ>>
    /\ out = Ok(Str(<<"1", ".", "2">>))

(* C10: the value of a predicate is unquoted exactly when it is wrapped in *)
(* one matching pair of quotes: two plain single quotes, two plain double  *)
(* quotes, or an opening curly quote with its closing curly quote.         *)
MatchingPairs == QuotePairs \cup {<<LDQUO, RDQUO>>}
WrappedInMatchingPair(value) ==
    Len(value) >= 2 /\ <<value[1], value[Len(value)]>> \in MatchingPairs
Unquoted(value, literal) ==
    Len(value) >= 2 /\ literal = Str(SubSeq(value, 2, Len(value) - 1))
C10_MatchingPairOnly ==
    (op = "parse_condition" /\ out.exc = "none")
        => (Unquoted(args.value, out.val[3]) <=> WrappedInMatchingPair(args.value))

(* C11: a predicate written with <=, >= or != and a value parses to a      *)
(* condition with that two-character operator and the literal of the       *)
(* value alone; the operator is not read as <, > or = with its second      *)
(* character put into the literal.                                         *)
TwoCharacterOperators == {<<"<", "=">>, <<">", "=">>, <<"!", "=">>}
C11_LongestOperatorFirst ==
    (op = "parse_condition"
        /\ args.operator \in TwoCharacterOperators
        /\ args.value # <<>>
        /\ out.exc = "none")
        => (out.val[2] = args.operator /\ out.val[3] = parse_value(args.value))

(* C12: parse_condition gives the same outcome for a predicate whatever    *)
(* whitespace stands before and after its operator and around the whole    *)
(* predicate: the outcome of the predicate written without whitespace.     *)
C12_WhitespaceInsensitive ==
    op = "parse_condition"
        => out = parse_condition(args.field \o args.operator \o args.value)

(* C13: no step changes the store: after every call of query, returning    *)
(* or raising, the record list and count() are what they were, and the     *)
(* outcome of a query is the outcome of that query string on the store     *)
(* as it was constructed, however many queries went before.                *)
C13_StoreUnchanged ==
    [][/\ data' = data
       /\ count(data') = count(data)
       /\ op' = "query" => out' = query(data, args'.query_str)]_vars
C13_Witness ==
    /\ op = "query"
    /\ out = ValueErr(<<>>)
    /\ count(data) = 2
    /\ data[1] # data[2]

AndCases == <<{"A", "a"}, {"N", "n"}, {"D", "d"}>>
AndWordAt(p, i) ==
    i >= 1 /\ i + 2 <= Len(p) /\ \A k \in 1..3 : p[i + k - 1] \in AndCases[k]
StandaloneAnd(p) ==
    \E i \in 2..Len(p) :
        /\ AndWordAt(p, i)
        /\ p[i - 1] \in Whitespace
        /\ i + 3 <= Len(p)
        /\ p[i + 3] \in Whitespace
TrailingAnd(p) ==
    Len(p) >= 4 /\ AndWordAt(p, Len(p) - 2) /\ p[Len(p) - 3] \in Whitespace
IsSeparator(sep) ==
    \E i \in 2..Len(sep) :
        /\ AndWordAt(sep, i)
        /\ i + 3 <= Len(sep)
        /\ \A k \in DOMAIN sep : (k < i \/ k > i + 2) => sep[k] \in Whitespace
Trimmed(p) == p = <<>> \/ (p[1] \notin Whitespace /\ p[Len(p)] \notin Whitespace)
SplitsOnlyAtStandaloneAnd ==
    ~StandaloneAnd(args.conditions_str) => out = Ok(<<strip(args.conditions_str)>>)

(* C14, as stated: split_conditions splits only at the word AND, in any    *)
(* letter case, with whitespace on both sides: trimmed predicates that     *)
(* hold no such AND, joined by such separators, come back as they were,    *)
(* in order, and the letters AND inside a word are no split point.         *)
C14_SplitsAtStandaloneAnd ==
    op = "split_conditions"
        => /\ SplitsOnlyAtStandaloneAnd
           /\ (/\ IsSeparator(args.sep)
               /\ \A i \in DOMAIN args.segments :
                    Trimmed(args.segments[i]) /\ ~StandaloneAnd(args.segments[i]))
                => out = Ok(args.segments)

(* C14, amended: the same for predicates that moreover do not end with     *)
(* the word AND after whitespace.                                          *)
C14_SplitsAtStandaloneAndNotTrailing ==
    op = "split_conditions"
        => /\ SplitsOnlyAtStandaloneAnd
           /\ (/\ IsSeparator(args.sep)
               /\ \A i \in DOMAIN args.segments :
                    /\ Trimmed(args.segments[i])
                    /\ ~StandaloneAnd(args.segments[i])
                    /\ ~TrailingAnd(args.segments[i]))
                => out = Ok(args.segments)
C14_Witness ==
    /\ op = "split_conditions"
    /\ args.segments = <<<<"a", "=", "A", "N", "D", "Y">>,
                         <<"B", "A", "N", "D", "=", "1">>>>
    /\ args.sep = <<TAB, "A", "n", "d", SP, SP>>
    /\ out = Ok(args.segments)

(* The comparison of two numbers under an operator.                        *)
NumericComparison(operator, x, y) ==
    CASE operator = <<"=">> -> num_eq(x, y)
      [] operator = <<"!", "=">> -> ~num_eq(x, y)
      [] operator = <<"<">> -> num_lt(x, y)
      [] operator = <<">">> -> num_lt(y, x)
      [] operator = <<"<", "=">> -> num_lt(x, y) \/ num_eq(x, y)
      [] operator = <<">", "=">> -> num_lt(y, x) \/ num_eq(x, y)

(* C15: with a numeric literal and a record value that is a string         *)
(* float() parses, evaluate_condition compares the parsed number with the  *)
(* literal as numbers; with a string literal and a numeric record value    *)
(* neither is converted: the two are not equal, whatever the string reads. *)
C15_OneWayCoercion ==
    (op = "evaluate_condition" /\ args.field \in DOMAIN args.record)
        => LET record_value == args.record[args.field]
           IN  /\ (/\ args.value.t = "num"
                   /\ record_value.t = "str"
                   /\ float(record_value.s).ok)
                    => out = Ok(NumericComparison(args.operator,
                                                  float(record_value.s).v, args.value))
               /\ (/\ args.value.t = "str"
                   /\ record_value.t = "num"
                   /\ args.operator \in {<<"=">>, <<"!", "=">>})
                    => out = Ok(args.operator = <<"!", "=">>)
C15_Witness ==
    /\ op = "evaluate_condition"
    /\ args.field \in DOMAIN args.record
    /\ args.record[args.field] = Str(<<"1", "0">>)
    /\ args.value = Num(9, 0)
    /\ args.operator = <<">">>
    /\ out = Ok(TRUE)

(* C16: when parse_condition accepts a predicate, its literal is built     *)
(* from all of the text after the operator, trimmed and with one pair of   *)
(* wrapping quotes stripped; no character after the value is dropped.      *)
C16_ValueIsRemainder ==
    (op = "parse_condition" /\ out.exc = "none")
        => out.val[3] = parse_value(strip(args.rest))

(* C17: a predicate whose value is a non-empty text of letters, digits,    *)
(* spaces, periods, dashes and parentheses between two plain single or two *)
(* plain double quotes parses to the field, the operator and that text,    *)
(* character for character.                                                *)
VerbatimChars ==
    Range(LowerCase) \cup Range(UpperCase) \cup Digits \cup {SP, ".", "-", "(", ")"}
InnerText(value) == SubSeq(value, 2, Len(value) - 1)
QuotedVerbatim(value) ==
    /\ Len(value) >= 3
    /\ value[1] \in {SQ, DQ}
    /\ value[Len(value)] = value[1]
    /\ \A i \in 2..(Len(value) - 1) : value[i] \in VerbatimChars
C17_QuotedRoundTrip ==
    (op = "parse_condition"
        /\ args.operator \in SUPPORTED_OPERATORS
        /\ QuotedVerbatim(args.value))
        => out = Ok(<<args.field, args.operator, Str(InnerText(args.value))>>)
C17_Witness ==
    /\ op = "parse_condition"
    /\ args.condition =
         <<"B", "_", "2", SP, ">", "=", SP, DQ, SP, SP, ".", DQ>>
    /\ out = Ok(<<<<"B", "_", "2">>, <<">", "=">>, Str(<<SP, SP, ".">>)>>)

(* C18: _clean_js_content returns the content without a leading            *)
(* "var <name> =" and without a trailing semicolon, each taken off when    *)
(* it is there, whether or not the other is, and trimmed; content with     *)
(* neither comes back as it is.                                            *)
C18_PrefixAndSemicolonIndependent ==
    (op = "_clean_js_content"
        /\ args.lead = <<>>
        /\ (args.prefix = <<>> \/ startswith(args.prefix, <<"v", "a", "r", SP>>)))
        => out = Ok(args.body)

====
